---- MODULE Spec2Model ----
(***************************************************************************)
(* Model of src/frame_editor.py, the Streamlit skeleton frame editor.      *)
(*                                                                         *)
(* The script is re-executed top to bottom on every interaction.  One run  *)
(* is a straight line through three places:                                *)
(*   "start"    lines 29-58: the first run parses the inputs and creates    *)
(*              the session state                                          *)
(*   "view"     lines 62-106: slider, frame filter, suggestion pass         *)
(*   "edit"     lines 109-131: data_editor, persist edits                   *)
(*   "controls" lines 134-152: Prev / Next / Export buttons                 *)
(* pc is the position of the current run; the session state (pos,          *)
(* id_to_name, name_to_neck, uninterested) survives from run to run.       *)
(* A run that st.stop() ends leaves pc at "stopped", a run that an         *)
(* uncaught KeyError ends for a missing column leaves it at "crashed":     *)
(* with the same uploads every rerun ends the same way.                    *)
(*                                                                         *)
(* name_to_neck is a Python dict: the model keeps it as a sequence of      *)
(* <<name, point>> entries in insertion order, because the nearest-name    *)
(* search depends on that order.                                           *)
(*                                                                         *)
(* math.dist is compared through the squared distance: for the integer     *)
(* coordinates remove_decimals produces, d1 < d2 holds exactly when the    *)
(* squares compare the same way.  A coordinate the file leaves empty is    *)
(* pd.NA after remove_decimals; math.dist raises TypeError on it.          *)
(***************************************************************************)
EXTENDS Integers, Sequences, FiniteSets, TLC

\* Neck coordinates of the loaded dataset range over 0..MaxCoord.
MaxCoord == 1

\* The text area's lines as line.strip() leaves them; "" is a line of
\* blanks only.
GoodNamesText == <<"Alice", "", "Bob">>
BlankNamesText == <<"", "">>
EmptyNamesText == <<>>

\* The columns the script reads from the csv file.
RequiredColumns ==
    {"Frame", "Timestamp", "BodyID", "NECK_X", "NECK_Y", "NECK_Z"}

\* The rows of raw_skeletons.csv, in file order, without their coordinates:
\* the file is not sorted by Frame; frame 1 shows BodyID 1, frame 2 shows
\* BodyID 2, frame 3 shows a new BodyID 3 and then BodyID 2 again.
Layout ==
    << [Frame |-> 3, BodyID |-> 3],
       [Frame |-> 1, BodyID |-> 1],
       [Frame |-> 2, BodyID |-> 2],
       [Frame |-> 3, BodyID |-> 2] >>

\* Every dataset with that layout and integer neck points (lines 37-38).
Datasets ==
    { [i \in 1..Len(Layout) |->
          [Frame |-> Layout[i].Frame, Timestamp |-> i,
           BodyID |-> Layout[i].BodyID, neck |-> <<x[i], 0, 0>>]] :
      x \in [1..Len(Layout) -> 0..MaxCoord] }

\* pd.NA, the missing-value marker of the Int64 columns (line 15); the
\* coordinates that are present are never negative here.
NA == 0 - 1

HasNA(p) == \E c \in 1..3 : p[c] = NA

\* The datasets whose first row has no NECK_X value.
DatasetsNA == { [d EXCEPT ![1].neck = <<NA, 0, 0>>] : d \in Datasets }

\* The table of that layout with every neck at the origin.
PlainTable ==
    [i \in 1..Len(Layout) |->
        [Frame |-> Layout[i].Frame, Timestamp |-> i,
         BodyID |-> Layout[i].BodyID, neck |-> <<0, 0, 0>>]]

VARIABLES
    df,             \* the loaded table (line 37), fixed for the session
    csv_columns,    \* the columns the uploaded csv file has
    names_text,     \* the lines of the names text area (line 27)
    created,        \* 'pos' in st.session_state: the session state exists
    pc,             \* position of the current script run
    editor_seen,    \* the data_editor widget has been rendered before
    pos,            \* st.session_state.pos
    id_to_name,     \* st.session_state.id_to_name
    name_to_neck,   \* st.session_state.name_to_neck, in insertion order
    uninterested,   \* st.session_state.uninterested
    sub,            \* rows of the active frame as shown to the editor
    auto,           \* BodyIDs the suggestion pass labelled in the latest run
    edited,         \* rows returned by st.data_editor in this run
    out_df,         \* result of the last Export press of this run
    pressed         \* the button that ended the latest run, with pos then

vars == <<df, csv_columns, names_text, created, pc, editor_seen, pos,
          id_to_name, name_to_neck, uninterested, sub, auto, edited, out_df,
          pressed>>

\* what no run changes once the session state exists
session == <<df, csv_columns, names_text, created>>

\* line 31: the non-blank lines, stripped, in the order of the text
person_names == SelectSeq(names_text, LAMBDA line : line # "")

----------------------------------------------------------------------------
\* Helpers for dicts and sequences

EmptyDict == [b \in {} |-> ""]

\* dict.get(k, "")
Get(d, k) == IF k \in DOMAIN d THEN d[k] ELSE ""

\* d[k] = v
Put(d, k, v) == [x \in DOMAIN d \cup {k} |-> IF x = k THEN v ELSE d[x]]

\* d.pop(k, None)
Pop(d, k) == [x \in DOMAIN d \ {k} |-> d[x]]

\* keys of name_to_neck
Keys(n2n) == { n2n[i][1] : i \in 1..Len(n2n) }

\* an assignment that keeps the point a name already has
SetNeck_KeepFirst(n2n, name, neck) ==
    IF name \in Keys(n2n) THEN n2n ELSE Append(n2n, <<name, neck>>)

\* name_to_neck[name] = neck: an existing key keeps its place in the
\* iteration order, a new key goes last
SetNeck(n2n, name, neck) ==
    IF name \in Keys(n2n)
    THEN [i \in 1..Len(n2n) |->
             IF n2n[i][1] = name THEN <<name, neck>> ELSE n2n[i]]
    ELSE Append(n2n, <<name, neck>>)

\* math.dist(p, q), squared
Dist2(p, q) ==
    (p[1] - q[1]) * (p[1] - q[1]) + (p[2] - q[2]) * (p[2] - q[2])
    + (p[3] - q[3]) * (p[3] - q[3])

Min(S) == CHOOSE m \in S : \A n \in S : m <= n

\* sorted(df['Frame'].unique())
RECURSIVE SortedSeq(_)
SortedSeq(S) ==
    IF S = {} THEN <<>> ELSE <<Min(S)>> \o SortedSeq(S \ {Min(S)})

frames == SortedSeq({ df[i].Frame : i \in 1..Len(df) })
total == Len(frames)

\* df[df['Frame'] == f], rows in file order
Block(f) == SelectSeq(df, LAMBDA r : r.Frame = f)

----------------------------------------------------------------------------
\* Suggestion pass, lines 82-106

\* first loop: reapply the ledger's mappings
Reapply(block, idn) ==
    [i \in 1..Len(block) |->
        [Frame |-> block[i].Frame, Timestamp |-> block[i].Timestamp,
         BodyID |-> block[i].BodyID, neck |-> block[i].neck,
         PersonName |-> Get(idn, block[i].BodyID)]]

\* a first loop that forgets used.add(mapped)
UsedAfterReapply_Forgotten(rows) == {}

\* used after the first loop
UsedAfterReapply(rows) ==
    { rows[i].PersonName : i \in 1..Len(rows) } \ {""}

\* a comparison that lets a later name win a tie
Closer_OrEqual(d, bdist) == d <= bdist

\* the comparison that replaces the best candidate (line 100)
Closer(d, bdist) == d < bdist

\* inner loop, lines 95-101: scan name_to_neck from entry i on
RECURSIVE Nearest(_, _, _, _, _, _)
Nearest(n2n, i, neck, used, best, bdist) ==
    IF i > Len(n2n) THEN best
    ELSE LET name == n2n[i][1]
             d == Dist2(neck, n2n[i][2])
         IN IF name \in used
            THEN Nearest(n2n, i + 1, neck, used, best, bdist)
            ELSE IF best = "" \/ Closer(d, bdist)
                 THEN Nearest(n2n, i + 1, neck, used, name, d)
                 ELSE Nearest(n2n, i + 1, neck, used, best, bdist)

\* a guard that does not look at uninterested
Eligible_IgnoresUninterested(row, un) == row.PersonName = ""

\* a guard that does not look at the label the first loop applied
Eligible_IgnoresMapping(row, un) == row.BodyID \notin un

\* the guard of line 93
Eligible(row, un) == row.PersonName = "" /\ row.BodyID \notin un

\* an assignment that labels the row but forgets to write id_to_name
Assign_RowOnly(st, i, best) ==
    [rows |-> [st.rows EXCEPT ![i].PersonName = best],
     idn  |-> st.idn,
     n2n  |-> SetNeck(st.n2n, best, st.rows[i].neck),
     un   |-> st.un,
     used |-> st.used \cup {best},
     auto |-> st.auto \cup {st.rows[i].BodyID},
     err  |-> st.err]

\* lines 103-106: row i gets the name best; st is the loop's state
Assign(st, i, best) ==
    [rows |-> [st.rows EXCEPT ![i].PersonName = best],
     idn  |-> Put(st.idn, st.rows[i].BodyID, best),
     n2n  |-> SetNeck(st.n2n, best, st.rows[i].neck),
     un   |-> st.un,
     used |-> st.used \cup {best},
     auto |-> st.auto \cup {st.rows[i].BodyID},
     err  |-> st.err]

\* line 99 raises TypeError: the scan reaches a name that is not used
\* while the row's neck or the name's stored point holds pd.NA
DistRaises(n2n, neck, used) ==
    \E k \in 1..Len(n2n) :
        n2n[k][1] \notin used /\ (HasNA(neck) \/ HasNA(n2n[k][2]))

\* second loop, lines 92-106, from row i on; the loop ends where line 99
\* raises, with what the rows before have written
RECURSIVE SuggestLoop(_, _)
SuggestLoop(st, i) ==
    IF i > Len(st.rows) THEN st
    ELSE LET row == st.rows[i]
             best == Nearest(st.n2n, 1, row.neck, st.used, "", 0)
         IN IF Eligible(row, st.un) /\ DistRaises(st.n2n, row.neck, st.used)
            THEN [st EXCEPT !.err = TRUE]
            ELSE IF Eligible(row, st.un) /\ best # ""
                 THEN SuggestLoop(Assign(st, i, best), i + 1)
                 ELSE SuggestLoop(st, i + 1)

\* lines 78-106 for frame f
SuggestForFrame(f, idn, n2n, un) ==
    LET rows == Reapply(Block(f), idn)
    IN SuggestLoop([rows |-> rows, idn |-> idn, n2n |-> n2n, un |-> un,
                    used |-> UsedAfterReapply(rows), auto |-> {},
                    err |-> FALSE], 1)

NoExport == [status |-> "none", rows |-> <<>>]

NoPress == [button |-> "none", at |-> 0]

\* lines 29-58 of the first run: names and table are there, the session
\* state is created and the frames are listed
Start ==
    /\ pc = "start"
    /\ names_text # <<>>
    /\ person_names # <<>>
    /\ "Frame" \in csv_columns
    /\ created' = TRUE
    /\ pc' = "view"
    /\ UNCHANGED <<df, csv_columns, names_text, editor_seen, pos, id_to_name,
                   name_to_neck, uninterested, sub, auto, edited, out_df,
                   pressed>>

\* lines 29-34: without a name the run does nothing (empty text, line 29)
\* or reports the error and stops (blank lines only, lines 32-34)
NoNames ==
    /\ pc = "start"
    /\ (names_text = <<>> \/ person_names = <<>>)
    /\ pc' = "stopped"
    /\ UNCHANGED <<session, editor_seen, pos, id_to_name, name_to_neck,
                   uninterested, sub, auto, edited, out_df, pressed>>

\* lines 51-57 of the first run on a table without a Frame column: the
\* session state is created, then df['Frame'] raises KeyError
StartKeyError ==
    /\ pc = "start"
    /\ names_text # <<>>
    /\ person_names # <<>>
    /\ "Frame" \notin csv_columns
    /\ created' = TRUE
    /\ pc' = "crashed"
    /\ UNCHANGED <<df, csv_columns, names_text, editor_seen, pos, id_to_name,
                   name_to_neck, uninterested, sub, auto, edited, out_df,
                   pressed>>

\* the columns lines 79 and 84 read
ViewColumns == {"NECK_X", "NECK_Y", "NECK_Z", "BodyID"}

\* the columns line 110 selects
EditorColumns == {"Frame", "Timestamp", "BodyID"}

\* a column is missing where the run reads it: KeyError at line 79 or 84
\* before the suggestion pass, or at line 110 after it
ColumnKeyError ==
    /\ \/ pc = "view" /\ ~(ViewColumns \subseteq csv_columns)
       \/ pc = "edit" /\ ~(EditorColumns \subseteq csv_columns)
    /\ pc' = "crashed"
    /\ UNCHANGED <<session, editor_seen, pos, id_to_name, name_to_neck,
                   uninterested, sub, auto, edited, out_df, pressed>>

\* lines 62-106: the slider sets pos, then the frame is filtered and labelled
View ==
    /\ pc = "view"
    /\ ViewColumns \subseteq csv_columns
    /\ \E p \in 0..(total - 1) :
          /\ (~editor_seen) => p = pos
          /\ pos' = p
          /\ LET st == SuggestForFrame(frames[p + 1], id_to_name,
                                       name_to_neck, uninterested)
             IN /\ ~st.err
                /\ sub' = st.rows
                /\ id_to_name' = st.idn
                /\ name_to_neck' = st.n2n
                /\ auto' = st.auto
    /\ pc' = "edit"
    /\ edited' = <<>>
    /\ out_df' = NoExport
    /\ pressed' = NoPress
    /\ UNCHANGED <<session, editor_seen, uninterested>>

\* lines 62-99: the suggestion pass raises TypeError at line 99; the run
\* ends there, the editor is not shown and no row is persisted, what the
\* pass wrote before stays
ViewAbort ==
    /\ pc = "view"
    /\ ViewColumns \subseteq csv_columns
    /\ \E p \in 0..(total - 1) :
          /\ (~editor_seen) => p = pos
          /\ pos' = p
          /\ LET st == SuggestForFrame(frames[p + 1], id_to_name,
                                       name_to_neck, uninterested)
             IN /\ st.err
                /\ id_to_name' = st.idn
                /\ name_to_neck' = st.n2n
                /\ auto' = st.auto
    /\ pc' = "view"
    /\ sub' = <<>>
    /\ edited' = <<>>
    /\ out_df' = NoExport
    /\ pressed' = NoPress
    /\ UNCHANGED <<session, editor_seen, uninterested>>

----------------------------------------------------------------------------
\* data_editor and persist edits, lines 109-131

\* the names of the catalog
CatalogNames == { person_names[i] : i \in 1..Len(person_names) }

\* a text cell instead of the select box: any value can be entered
Options_FreeText == {""} \cup CatalogNames \cup {"Zed"}

\* the options of the PersonName select box (line 113)
Options == {""} \cup CatalogNames

\* sub[['Frame','Timestamp','BodyID','PersonName']] with the cell edits
\* applied: choice[i] is the value of the PersonName cell of row i
Edited(rows, choice) ==
    [i \in 1..Len(rows) |->
        [Frame |-> rows[i].Frame, Timestamp |-> rows[i].Timestamp,
         BodyID |-> rows[i].BodyID, PersonName |-> choice[i]]]

\* sub.loc[sub['BodyID'] == bid, '_neck'].iloc[0]
NeckOf(rows, bid) ==
    rows[Min({ i \in 1..Len(rows) : rows[i].BodyID = bid })].neck

\* an iteration whose empty branch also forgets the point of the name the
\* body carried
PersistRow_DropsPoint(led, r, rows) ==
    IF r.PersonName # ""
    THEN [idn |-> Put(led.idn, r.BodyID, r.PersonName),
          n2n |-> SetNeck(led.n2n, r.PersonName, NeckOf(rows, r.BodyID)),
          un  |-> led.un \ {r.BodyID}]
    ELSE [idn |-> Pop(led.idn, r.BodyID),
          n2n |-> SelectSeq(led.n2n,
                            LAMBDA e : e[1] # Get(led.idn, r.BodyID)),
          un  |-> led.un \cup {r.BodyID}]

\* an iteration that empties uninterested instead of discarding the body
PersistRow_ClearsUninterested(led, r, rows) ==
    IF r.PersonName # ""
    THEN [idn |-> Put(led.idn, r.BodyID, r.PersonName),
          n2n |-> SetNeck(led.n2n, r.PersonName, NeckOf(rows, r.BodyID)),
          un  |-> {}]
    ELSE [idn |-> Pop(led.idn, r.BodyID),
          n2n |-> led.n2n,
          un  |-> led.un \cup {r.BodyID}]

\* an iteration that forgets uninterested.discard(bid)
PersistRow_NoDiscard(led, r, rows) ==
    IF r.PersonName # ""
    THEN [idn |-> Put(led.idn, r.BodyID, r.PersonName),
          n2n |-> SetNeck(led.n2n, r.PersonName, NeckOf(rows, r.BodyID)),
          un  |-> led.un]
    ELSE [idn |-> Pop(led.idn, r.BodyID),
          n2n |-> led.n2n,
          un  |-> led.un \cup {r.BodyID}]

\* one iteration of the loop of lines 121-131; led is the ledger
PersistRow(led, r, rows) ==
    IF r.PersonName # ""
    THEN [idn |-> Put(led.idn, r.BodyID, r.PersonName),
          n2n |-> SetNeck(led.n2n, r.PersonName, NeckOf(rows, r.BodyID)),
          un  |-> led.un \ {r.BodyID}]
    ELSE [idn |-> Pop(led.idn, r.BodyID),
          n2n |-> led.n2n,
          un  |-> led.un \cup {r.BodyID}]

\* the loop of lines 121-131 from row i on
RECURSIVE Reconcile(_, _, _, _)
Reconcile(led, ed, rows, i) ==
    IF i > Len(ed) THEN led
    ELSE Reconcile(PersistRow(led, ed[i], rows), ed, rows, i + 1)

Ledger == [idn |-> id_to_name, n2n |-> name_to_neck, un |-> uninterested]

\* lines 109-131: the editor returns the rows with the annotator's cell
\* values (none on the first rendering), and every returned row is persisted
Persist ==
    /\ pc = "edit"
    /\ EditorColumns \subseteq csv_columns
    /\ \E choice \in [1..Len(sub) -> Options] :
          /\ (~editor_seen) =>
                \A i \in 1..Len(sub) : choice[i] = sub[i].PersonName
          /\ edited' = Edited(sub, choice)
          /\ LET led == Reconcile(Ledger, Edited(sub, choice), sub, 1)
             IN /\ id_to_name' = led.idn
                /\ name_to_neck' = led.n2n
                /\ uninterested' = led.un
    /\ editor_seen' = TRUE
    /\ pc' = "controls"
    /\ UNCHANGED <<session, pos, sub, auto, out_df, pressed>>

----------------------------------------------------------------------------
\* Controls, lines 134-152

\* an export that keeps every record
Named_Always(idn, r) == TRUE

\* lines 145-146: the record's BodyID has a name
Named(idn, r) == Get(idn, r.BodyID) # ""

\* rows_out of lines 140-149, for the frames from index k on
RECURSIVE RowsOut(_, _)
RowsOut(idn, k) ==
    IF k > total THEN <<>>
    ELSE LET block == Block(frames[k])
             named == SelectSeq(block, LAMBDA r : Named(idn, r))
         IN [i \in 1..Len(named) |->
                [Frame |-> named[i].Frame, Timestamp |-> named[i].Timestamp,
                 BodyID |-> named[i].BodyID, neck |-> named[i].neck,
                 PersonName |-> Get(idn, named[i].BodyID)]]
            \o RowsOut(idn, k + 1)

\* an export that hands out an empty table when no record has a name
ExportAll_EmptyTable(idn) == [status |-> "ok", rows |-> RowsOut(idn, 1)]

\* line 150: selecting the columns of an empty frame raises KeyError
ExportAll(idn) ==
    LET rows_out == RowsOut(idn, 1)
    IN IF rows_out = <<>>
       THEN [status |-> "KeyError", rows |-> <<>>]
       ELSE [status |-> "ok", rows |-> rows_out]

\* the run ends: its local tables are gone, the session state stays
EndRun ==
    /\ pc' = "view"
    /\ sub' = <<>>
    /\ edited' = <<>>
    /\ UNCHANGED <<session, editor_seen, id_to_name, name_to_neck,
                   uninterested, auto>>

\* no button was pressed in this run
NoButton ==
    /\ pc = "controls"
    /\ EndRun
    /\ UNCHANGED <<pos, out_df, pressed>>

\* a Prev press that does not look at pos
Prev_NoFloor ==
    /\ pc = "controls"
    /\ pos' = pos - 1
    /\ pressed' = [button |-> "prev", at |-> pos]
    /\ EndRun
    /\ UNCHANGED out_df

\* line 135-136
Prev ==
    /\ pc = "controls"
    /\ pos' = IF pos > 0 THEN pos - 1 ELSE pos
    /\ pressed' = [button |-> "prev", at |-> pos]
    /\ EndRun
    /\ UNCHANGED out_df

\* line 137-138
NextFrame ==
    /\ pc = "controls"
    /\ pos' = IF pos < total - 1 THEN pos + 1 ELSE pos
    /\ pressed' = [button |-> "next", at |-> pos]
    /\ EndRun
    /\ UNCHANGED out_df

\* lines 139-152
Export ==
    /\ pc = "controls"
    /\ out_df' = ExportAll(id_to_name)
    /\ EndRun
    /\ UNCHANGED <<pos, pressed>>

\* the uploads a session can be opened with: a full table with names, a
\* table that lacks one required column, or a full table without a name
Uploads(tables) ==
    { [df |-> d, columns |-> RequiredColumns, names |-> GoodNamesText] :
         d \in tables }
    \cup { [df |-> PlainTable, columns |-> RequiredColumns \ {c},
            names |-> GoodNamesText] : c \in RequiredColumns }
    \cup { [df |-> PlainTable, columns |-> RequiredColumns, names |-> t] :
            t \in {BlankNamesText, EmptyNamesText} }

\* the state when the uploads are in and the script runs on them first
InitWith(tables) ==
    /\ \E u \in Uploads(tables) :
          /\ df = u.df
          /\ csv_columns = u.columns
          /\ names_text = u.names
    /\ created = FALSE
    /\ pc = "start"
    /\ editor_seen = FALSE
    /\ pos = 0
    /\ id_to_name = EmptyDict
    /\ name_to_neck = <<>>
    /\ uninterested = {}
    /\ sub = <<>>
    /\ auto = {}
    /\ edited = <<>>
    /\ out_df = NoExport
    /\ pressed = NoPress

Init == InitWith(Datasets)

Next ==
    \/ Start \/ NoNames \/ StartKeyError \/ ColumnKeyError
    \/ View \/ Persist \/ NoButton \/ Prev \/ NextFrame \/ Export

Spec == Init /\ [][Next]_vars

\* the sessions on a table with a missing neck coordinate
InitNA == InitWith(DatasetsNA)

NextNA ==
    \/ Start \/ NoNames \/ StartKeyError \/ ColumnKeyError
    \/ View \/ ViewAbort \/ Persist \/ NoButton \/ Prev \/ NextFrame \/ Export

SpecNA == InitNA /\ [][NextNA]_vars

----------------------------------------------------------------------------
\* Properties

\* the suggestion pass of the current run has finished, its rows are shown
Suggested == pc = "edit"

\* C1: after the suggestion pass no two rows of the frame with distinct
\* BodyIDs carry the same non-empty PersonName.
C1_NoIntraFrameCollision ==
    Suggested =>
        \A i, j \in 1..Len(sub) :
            (sub[i].BodyID # sub[j].BodyID /\ sub[i].PersonName # "")
                => sub[i].PersonName # sub[j].PersonName

\* C2: a name the suggestion pass newly assigns to a row is carried by no
\* other row of the frame, auto-assigned or reapplied from the ledger,
\* whatever the order of the rows.
C2_AutoNamesUnique ==
    Suggested =>
        \A i \in 1..Len(sub) :
            sub[i].BodyID \in auto =>
                /\ sub[i].PersonName # ""
                /\ \A j \in 1..Len(sub) :
                       j # i => sub[j].PersonName # sub[i].PersonName

\* two rows of one frame were auto-assigned in the same pass
C2_Witness ==
    /\ Suggested
    /\ Cardinality(auto) = 2
    /\ Len(sub) = 2

\* what a step may do to the entry of a mapped BodyID
C3_MappedUntouchedStep ==
    \A b \in DOMAIN id_to_name :
        Get(id_to_name', b) # id_to_name[b] =>
            /\ pc = "edit"
            /\ \E i \in 1..Len(edited') :
                   /\ edited'[i].BodyID = b
                   /\ edited'[i].PersonName = Get(id_to_name', b)

\* C3: id_to_name[b] of a BodyID b that has a mapping changes in no step
\* but the persisting of an edited row of b, which sets it to that row's
\* label; in particular the suggestion pass leaves it alone.
C3_Precedence == [][C3_MappedUntouchedStep]_vars

\* the pass labelled a new row in a frame that also shows a mapped body,
\* while an unused name was at hand
C3_Witness ==
    /\ Suggested
    /\ auto # {}
    /\ \E i \in 1..Len(sub) :
          /\ sub[i].BodyID \notin auto
          /\ sub[i].PersonName # ""
          /\ id_to_name[sub[i].BodyID] = sub[i].PersonName

\* C4: no BodyID is both a key of id_to_name and a member of uninterested.
C4_NamedNotUninterested == DOMAIN id_to_name \cap uninterested = {}

\* a body that was uninterested has been given a name by an edit, and
\* another one has been cleared in the same run
C4_Witness ==
    /\ pc = "controls"
    /\ \E i, j \in 1..Len(edited) :
          /\ edited[i].PersonName # ""
          /\ sub[i].PersonName = ""
          /\ edited[i].BodyID \notin auto
          /\ edited[i].BodyID \in DOMAIN id_to_name
          /\ edited[j].PersonName = ""
          /\ sub[j].PersonName # ""
          /\ edited[j].BodyID \in uninterested

BodyIDs == { df[i].BodyID : i \in 1..Len(df) }

\* the names carried by the rows of a frame
NamesIn(rows) == { rows[i].PersonName : i \in 1..Len(rows) } \ {""}

\* what a step may do to and with uninterested
C5_UninterestedStep ==
    \A b \in BodyIDs :
        /\ (pc = "edit" /\ \E i \in 1..Len(edited') :
                               /\ edited'[i].BodyID = b
                               /\ edited'[i].PersonName = "")
               => b \in uninterested'
        /\ (pc = "view" /\ b \in uninterested)
               => (b \notin auto' /\ b \notin DOMAIN id_to_name')
        /\ (b \in uninterested /\ b \notin uninterested')
               => (pc = "edit" /\ \E i \in 1..Len(edited') :
                                      /\ edited'[i].BodyID = b
                                      /\ edited'[i].PersonName # "")

\* C5: persisting an empty label of a BodyID puts it into uninterested; a
\* BodyID in uninterested gets no name from the suggestion pass of any
\* frame view; and it leaves uninterested only when a row of it with a
\* non-empty label is persisted.
C5_UninterestedSticky == [][C5_UninterestedStep]_vars

\* a frame view left an uninterested body unlabelled although a name no
\* row of the frame carries was last seen at exactly its neck point
C5_Witness ==
    /\ Suggested
    /\ \E i \in 1..Len(sub) :
          /\ sub[i].BodyID \in uninterested
          /\ sub[i].PersonName = ""
          /\ \E k \in 1..Len(name_to_neck) :
                 /\ name_to_neck[k][1] \notin NamesIn(sub)
                 /\ name_to_neck[k][2] = sub[i].neck

\* the only step that may add a BodyID to uninterested
C6_ExplicitOnlyStep ==
    \A b \in BodyIDs :
        (b \notin uninterested /\ b \in uninterested')
            => (pc = "edit" /\ \E i \in 1..Len(edited') :
                                   /\ edited'[i].BodyID = b
                                   /\ edited'[i].PersonName = ""
                                   /\ sub[i].PersonName # "")

\* C6: a BodyID enters uninterested only in the step that persists a row
\* of it whose label the annotator changed from a name to empty.
C6_ExplicitOnly == [][C6_ExplicitOnlyStep]_vars

\* the labels a view step gives, stated from the ledger before it
C7_NearestStep ==
    pc = "view" =>
        LET rows == sub'
            mapped(i) == rows[i].BodyID \in DOMAIN id_to_name
            usedAt(i) ==
                ({ rows[j].PersonName :
                      j \in { m \in 1..Len(rows) : mapped(m) } }
                 \cup { rows[j].PersonName : j \in 1..(i - 1) }) \ {""}
            cand(i) == { k \in 1..Len(name_to_neck) :
                            name_to_neck[k][1] \notin usedAt(i) }
            D(i, k) == Dist2(rows[i].neck, name_to_neck[k][2])
        IN \A i \in 1..Len(rows) :
              (~mapped(i) /\ rows[i].BodyID \notin uninterested) =>
                  IF cand(i) = {}
                  THEN rows[i].PersonName = ""
                  ELSE \E k \in cand(i) :
                          /\ rows[i].PersonName = name_to_neck[k][1]
                          /\ \A m \in cand(i) :
                                 \/ D(i, k) < D(i, m)
                                 \/ (D(i, k) = D(i, m) /\ k <= m)

\* C7: in a frame view, each row without a ledger mapping and not in
\* uninterested gets the name, among the keys of name_to_neck not used by
\* the mapped rows and the rows before it, whose stored point is nearest
\* to the row's neck, the earliest key in insertion order on a tie; with
\* no such key the row stays unlabelled.
C7_Nearest == [][C7_NearestStep]_vars

\* a row got the second name of the ledger although the first one was
\* carried by no row of the frame: the distance decided, not the order
C7_Witness ==
    /\ Suggested
    /\ Len(name_to_neck) >= 2
    /\ name_to_neck[1][1] \notin NamesIn(sub)
    /\ \E i \in 1..Len(sub) :
          /\ sub[i].BodyID \in auto
          /\ sub[i].PersonName = name_to_neck[2][1]

\* C8: persisting the rows the editor returned a second time leaves
\* id_to_name, name_to_neck (with its order) and uninterested as the first
\* persisting left them.
C8_ReconcileIdempotent ==
    pc = "controls" => Reconcile(Ledger, edited, sub, 1) = Ledger

\* the persisted rows give two BodyIDs the same name
C8_Witness ==
    /\ pc = "controls"
    /\ \E i, j \in 1..Len(edited) :
          /\ edited[i].BodyID # edited[j].BodyID
          /\ edited[i].PersonName # ""
          /\ edited[i].PersonName = edited[j].PersonName

\* the record of df an exported row was made from
Record(r) ==
    [Frame |-> r.Frame, Timestamp |-> r.Timestamp, BodyID |-> r.BodyID,
     neck |-> r.neck]

\* position of a record in the file
FileIndex(r) == CHOOSE i \in 1..Len(df) : df[i] = Record(r)

\* C9: an export that yields a table holds exactly the records of df
\* whose BodyID has a name in id_to_name, each once and with that name, by
\* ascending Frame and in file order within a frame; an export that
\* yields no table happens only when no record has a name.
C9_ExportFilter ==
    LET rows == out_df.rows
    IN /\ out_df.status = "ok" =>
            /\ \A k \in 1..Len(rows) :
                   /\ \E i \in 1..Len(df) : df[i] = Record(rows[k])
                   /\ rows[k].PersonName # ""
                   /\ rows[k].PersonName = Get(id_to_name, rows[k].BodyID)
            /\ \A i \in 1..Len(df) :
                   df[i].BodyID \in DOMAIN id_to_name =>
                       Cardinality({ k \in 1..Len(rows) :
                                        Record(rows[k]) = df[i] }) = 1
            /\ \A k, l \in 1..Len(rows) :
                   k < l =>
                       \/ rows[k].Frame < rows[l].Frame
                       \/ /\ rows[k].Frame = rows[l].Frame
                          /\ FileIndex(rows[k]) < FileIndex(rows[l])
       /\ out_df.status = "KeyError" =>
            \A i \in 1..Len(df) : df[i].BodyID \notin DOMAIN id_to_name

\* an export kept records of two frames that the file lists in the other
\* order, and dropped a record without a name
C9_Witness ==
    /\ out_df.status = "ok"
    /\ \E i \in 1..Len(df) : df[i].BodyID \notin DOMAIN id_to_name
    /\ \E k, l \in 1..Len(out_df.rows) :
          /\ k < l
          /\ FileIndex(out_df.rows[k]) > FileIndex(out_df.rows[l])

\* the records of BodyID b are all in the table rows, labelled n
AllExported(rows, b, n) ==
    \A i \in 1..Len(df) :
        df[i].BodyID = b =>
            \E k \in 1..Len(rows) :
                Record(rows[k]) = df[i] /\ rows[k].PersonName = n

\* view, persist and export steps of a run that suggests a name
C10_PropagationStep ==
    /\ pc = "view" =>
          \A i \in 1..Len(sub') :
              LET b == sub'[i].BodyID
                  usedAt ==
                      { Get(id_to_name, sub'[j].BodyID) :
                           j \in 1..Len(sub') }
                      \cup { sub'[j].PersonName : j \in 1..(i - 1) }
              IN /\ (/\ b \notin DOMAIN id_to_name
                     /\ b \notin uninterested
                     /\ Keys(name_to_neck) \ usedAt # {}) => b \in auto'
                 /\ b \in auto' =>
                       /\ b \notin DOMAIN id_to_name
                       /\ sub'[i].PersonName \in Keys(name_to_neck)
                       /\ Get(id_to_name', b) = sub'[i].PersonName
                       /\ \E k \in 1..Len(name_to_neck') :
                              name_to_neck'[k] =
                                  <<sub'[i].PersonName, sub'[i].neck>>
    /\ pc = "edit" =>
          \A i \in 1..Len(sub) :
              (sub[i].BodyID \in auto
               /\ edited'[i].PersonName = sub[i].PersonName)
                  => Get(id_to_name', sub[i].BodyID) = sub[i].PersonName
    /\ (pc = "controls" /\ out_df'.status # "none") =>
          \A b \in auto \cap DOMAIN id_to_name :
              /\ out_df'.status = "ok"
              /\ \A c \in DOMAIN id_to_name :
                     id_to_name[c] = id_to_name[b] =>
                         AllExported(out_df'.rows, c, id_to_name[b])
              /\ \A k \in 1..Len(out_df'.rows) :
                     out_df'.rows[k].BodyID \in DOMAIN id_to_name

\* C10: a frame view gives a row without mapping and not in uninterested
\* a name whenever the ledger holds one no row before it and no mapped row
\* uses, and writes that name into id_to_name and the row's neck into
\* name_to_neck at once; persisting the row as shown keeps the name; and
\* an export pressed in that run yields a table with every record of
\* every BodyID carrying that name, labelled with it, and with no record
\* of a BodyID without a name.
C10_Propagation == [][C10_PropagationStep]_vars

\* the bodies of the first frame: the session opens on it with an empty
\* ledger, so only the editor can have named them
FirstFrameBodies ==
    { df[i].BodyID : i \in { k \in 1..Len(df) : df[k].Frame = frames[1] } }

\* a name the annotator gave to a body of the first frame was given by the
\* suggestion pass to a body of a later frame, at another neck point, and
\* the export of that run holds the records of both under that name and
\* lacks the record of a body without a name
C10_Witness ==
    /\ out_df.status = "ok"
    /\ pos > 0
    /\ \E b \in auto, c \in FirstFrameBodies :
          /\ b \notin FirstFrameBodies
          /\ b \in DOMAIN id_to_name /\ c \in DOMAIN id_to_name
          /\ id_to_name[b] = id_to_name[c]
          /\ AllExported(out_df.rows, b, id_to_name[b])
          /\ AllExported(out_df.rows, c, id_to_name[b])
          /\ \E i, j \in 1..Len(df) :
                 /\ df[i].BodyID = b /\ df[j].BodyID = c
                 /\ df[i].neck # df[j].neck
    /\ \E i \in 1..Len(df) :
          /\ df[i].BodyID \notin DOMAIN id_to_name
          /\ \A k \in 1..Len(out_df.rows) : Record(out_df.rows[k]) # df[i]

\* the run ended before the session could start
Refused == pc \in {"stopped", "crashed"}

\* C12: when the table lacks a required column or no name is left after
\* trimming, the run ends without the session state having been created.
C12_AbortBeforeLedger ==
    (Refused /\ (csv_columns # RequiredColumns \/ person_names = <<>>))
        => ~created

\* the rows of the frame at position p
FrameRows(p) == Block(frames[p + 1])

\* C11: a frame view on a complete set of columns always reaches the
\* editor with every row of the frame, whatever neck values are missing;
\* a row without a neck point is not labelled by the suggestion pass.
C11_NoAbortStep ==
    (pc = "view" /\ csv_columns = RequiredColumns) =>
        /\ pc' = "edit"
        /\ Len(sub') = Len(FrameRows(pos'))
        /\ \A i \in 1..Len(sub') :
               HasNA(sub'[i].neck) => sub'[i].BodyID \notin auto'

C11_MissingNeckDegrades == [][C11_NoAbortStep]_vars

\* no record of the table has a name
NothingNamed == \A i \in 1..Len(df) : df[i].BodyID \notin DOMAIN id_to_name

\* an Export press with no named record
C13_EmptyExportStep ==
    (pc = "controls" /\ out_df' # NoExport /\ NothingNamed) =>
        /\ out_df' = [status |-> "KeyError", rows |-> <<>>]
        /\ UNCHANGED <<id_to_name, name_to_neck, uninterested, pos, created>>
        /\ pc' = "view"

\* C13: an Export press while no record has a name yields the error
\* outcome and no table, leaves the ledger and pos as they were, and the
\* next run starts as usual.
C13_EmptyExport == [][C13_EmptyExportStep]_vars

\* such a press happened on a later frame after names had been given and
\* cleared again
C13_Witness ==
    /\ out_df.status = "KeyError"
    /\ pc = "view"
    /\ pos > 0
    /\ name_to_neck # <<>>
    /\ uninterested # {}

\* name_to_neck[n]
PointOf(n2n, n) == n2n[CHOOSE k \in 1..Len(n2n) : n2n[k][1] = n][2]

\* what a step does to name_to_neck
C14_LatestPointStep ==
    /\ (pc = "edit" /\ pc' = "controls") =>
          \A i \in 1..Len(edited') :
              edited'[i].PersonName # "" =>
                  /\ edited'[i].PersonName \in Keys(name_to_neck')
                  /\ \E j \in 1..Len(edited') :
                         /\ edited'[j].PersonName = edited'[i].PersonName
                         /\ PointOf(name_to_neck', edited'[i].PersonName)
                                = sub[j].neck
    /\ \A k \in 1..Len(name_to_neck') :
          (k > Len(name_to_neck) \/ name_to_neck'[k] # name_to_neck[k]) =>
              \/ /\ pc = "view"
                 /\ \E i \in 1..Len(sub') :
                        /\ sub'[i].BodyID \in auto'
                        /\ name_to_neck'[k] =
                               <<sub'[i].PersonName, sub'[i].neck>>
              \/ /\ pc = "edit"
                 /\ \E i \in 1..Len(edited') :
                        name_to_neck'[k] =
                            <<edited'[i].PersonName, sub[i].neck>>

\* C14: once the rows of a frame are persisted, the point of every name a
\* row carries is the neck of a row of that frame carrying it; and an
\* entry of name_to_neck is written only in a step that gives its name to
\* a row of the active frame, with that row's neck, so it is the point of
\* the latest frame the name was used in.
C14_LatestPoint == [][C14_LatestPointStep]_vars

\* a name was seen in an earlier frame at another point and now has the
\* point of the frame just persisted
C14_Witness ==
    /\ pc = "controls"
    /\ \E i \in 1..Len(edited), j \in 1..Len(df) :
          /\ edited[i].PersonName # ""
          /\ df[j].BodyID = edited[i].BodyID
          /\ df[j].Frame < edited[i].Frame
          /\ df[j].neck # sub[i].neck
          /\ PointOf(name_to_neck, edited[i].PersonName) = sub[i].neck

\* C15: every name that is a value of id_to_name or a key of name_to_neck
\* is a name of the catalog.
C15_NamesFromCatalog ==
    /\ \A b \in DOMAIN id_to_name : id_to_name[b] \in CatalogNames
    /\ Keys(name_to_neck) \subseteq CatalogNames

\* the ledger holds every name of the catalog, one of them through the
\* suggestion pass
C15_Witness ==
    /\ Suggested
    /\ auto # {}
    /\ Keys(name_to_neck) = CatalogNames
    /\ { id_to_name[b] : b \in DOMAIN id_to_name } = CatalogNames

\* C16: pos is always within 0..total-1; a Prev press at 0 and a Next
\* press at total-1 leave it where it was, any other press moves it by
\* exactly one.
C16_PositionBounded ==
    /\ pos \in 0..(total - 1)
    /\ pressed.button = "prev" =>
          pos = (IF pressed.at = 0 THEN 0 ELSE pressed.at - 1)
    /\ pressed.button = "next" =>
          pos = (IF pressed.at = total - 1 THEN total - 1 ELSE pressed.at + 1)

\* Next was pressed on the last frame
C16_Witness ==
    /\ pressed = [button |-> "next", at |-> total - 1]
    /\ pos = total - 1

\* every key of name_to_neck stays, in its place
C18_KeysKeptStep ==
    \A k \in 1..Len(name_to_neck) :
        /\ k <= Len(name_to_neck')
        /\ name_to_neck'[k][1] = name_to_neck[k][1]

\* C18: every name that is a value of id_to_name is a key of name_to_neck,
\* and no step removes a key from name_to_neck.
C18_NamesKeptAsKeys ==
    /\ [](\A b \in DOMAIN id_to_name : id_to_name[b] \in Keys(name_to_neck))
    /\ [][C18_KeysKeptStep]_vars

\* every body that had a name was cleared, the names are still keys
C18_Witness ==
    /\ DOMAIN id_to_name = {}
    /\ Len(name_to_neck) = 2
    /\ Cardinality(uninterested) >= 2

\* what persisting the rows of a frame leaves alone
C19_ReconcileFrameStep ==
    (pc = "edit" /\ pc' = "controls") =>
        LET bids == { edited'[i].BodyID : i \in 1..Len(edited') }
            names == NamesIn(edited')
        IN /\ \A b \in BodyIDs \ bids :
                  /\ Get(id_to_name', b) = Get(id_to_name, b)
                  /\ (b \in uninterested') = (b \in uninterested)
           /\ Len(name_to_neck') >= Len(name_to_neck)
           /\ \A k \in 1..Len(name_to_neck') :
                  IF k <= Len(name_to_neck)
                  THEN name_to_neck[k][1] \notin names
                          => name_to_neck'[k] = name_to_neck[k]
                  ELSE name_to_neck'[k][1] \in names

\* C19: persisting the rows of a frame changes id_to_name and uninterested
\* only for the BodyIDs of those rows and name_to_neck only for the names
\* those rows carry.
C19_ReconcileFrame == [][C19_ReconcileFrameStep]_vars

\* rows were persisted with a changed label while a body outside the frame
\* had a name, another one was uninterested and a name no row carries had
\* a point
C19_Witness ==
    /\ pc = "controls"
    /\ \E i \in 1..Len(edited) : edited[i].PersonName # sub[i].PersonName
    /\ \E b, c \in BodyIDs \ { edited[i].BodyID : i \in 1..Len(edited) } :
          b \in DOMAIN id_to_name /\ c \in uninterested
    /\ Keys(name_to_neck) \ NamesIn(edited) # {}

\* C20: a second suggestion pass on the frame just labelled, with nothing
\* in between, leaves id_to_name, name_to_neck and uninterested as they are
\* and labels the rows as the first pass did.
C20_SuggestIdempotent ==
    Suggested =>
        LET st == SuggestForFrame(frames[pos + 1], id_to_name, name_to_neck,
                                  uninterested)
        IN /\ ~st.err
           /\ st.idn = id_to_name
           /\ st.n2n = name_to_neck
           /\ st.un = uninterested
           /\ st.rows = sub

\* the first pass labelled one row and left another one, which is not
\* uninterested, without a label
C20_Witness ==
    /\ Suggested
    /\ auto # {}
    /\ \E i \in 1..Len(sub) :
          sub[i].PersonName = "" /\ sub[i].BodyID \notin uninterested
====
